---- MODULE Spec2Model ----
(***************************************************************************)
(* Read path of a segment: SegmentPostings cursors, SegmentReader::open,   *)
(* read_postings and search (src/core/reader.rs), together with the        *)
(* collaborators it calls (binary serialisation, sorted-integer codec,     *)
(* term dictionary, intersection merge).                                   *)
(***************************************************************************)
EXTENDS Integers, Sequences, FiniteSets, TLC

\* ------------------------------------------------------------------ bounds
\* Largest max_doc a segment records.
MaxDoc == 3
\* Longest term list handed to search.
MaxTerms == 2
\* max_doc of the segment two concurrent queries run against.
MaxConcDoc == 2

\* --------------------------------------------------------------- constants
Components == {"INFO", "TERMS", "STORE", "POSTINGS", "FASTFIELDS"}
\* Terms a query may name; only IndexedTerms can occur in a dictionary.
Terms == {"a", "b", "c"}
IndexedTerms == <<"a", "b">>
Queries == {1, 2}

\* Option<T>: <<>> is None, <<v>> is Some(v).
None == <<>>
Some(v) == <<v>>

Min(x, y) == IF x <= y THEN x ELSE y

Range(f) == {f[i] : i \in DOMAIN f}

\* ------------------------------------------------------------------ state
VARIABLES
    segment,      \* the segment on disk
    open_status,  \* "closed", "open" or "failed"
    open_trace,   \* the steps open executed
    reader,       \* Option<SegmentReader>
    queries,      \* the searches run against the reader
    cur,          \* a cursor driven directly by a caller
    call,         \* the last call made on cur: [op, target, before, res, passed, prev]
    hist,         \* [last, mono, passed]: last skip_next target, whether the
                  \* targets were non-decreasing so far, ids returned or discarded
    ret           \* the last value an accessor of the reader returned:
                  \* [op, arg, val, first, at]

vars == <<segment, open_status, open_trace, reader, queries, cur, call, hist, ret>>

\* ------------------------------------------------- binary serialisation
\* u32 written as four bytes, most significant first.
U32Serialize(v) ==
    << (v \div 16777216) % 256, (v \div 65536) % 256, (v \div 256) % 256, v % 256 >>

\* u32 read from the front of data: fails when fewer than four bytes remain.
U32Deserialize(data) ==
    IF Len(data) < 4
    THEN [ok |-> FALSE]
    ELSE [ok |-> TRUE,
          val |-> data[1] * 16777216 + data[2] * 65536 + data[3] * 256 + data[4],
          rest |-> SubSeq(data, 5, Len(data))]

RECURSIVE VecSerialize_items(_)
VecSerialize_items(words) ==
    IF words = <<>> THEN <<>>
    ELSE U32Serialize(Head(words)) \o VecSerialize_items(Tail(words))

\* Vec<u32>: the number of items, then each item.
VecSerialize(words) == U32Serialize(Len(words)) \o VecSerialize_items(words)

RECURSIVE VecDeserialize_items(_, _, _)
VecDeserialize_items(data, n, acc) ==
    IF n = 0 THEN [ok |-> TRUE, val |-> acc]
    ELSE LET w == U32Deserialize(data) IN
         IF ~w.ok THEN [ok |-> FALSE]
         ELSE VecDeserialize_items(w.rest, n - 1, Append(acc, w.val))

\* Vec<u32>::deserialize: Err when the length or any item cannot be read.
VecDeserialize(data) ==
    LET n == U32Deserialize(data) IN
    IF ~n.ok THEN [ok |-> FALSE]
    ELSE VecDeserialize_items(n.rest, n.val, <<>>)

\* ------------------------------------------------------------------ codec
\* Sorted ids are stored as the first id followed by the gaps.
encode_sorted(ids) ==
    [i \in 1..Len(ids) |-> IF i = 1 THEN ids[1] ELSE ids[i] - ids[i - 1]]

RECURSIVE PrefixSum(_, _)
PrefixSum(data, i) == IF i = 0 THEN 0 ELSE PrefixSum(data, i - 1) + data[i]

\* decode_sorted(data, out): fills the front of the output buffer and returns
\* the number of ids written; slots past that number keep their old content.
decode_sorted(data, out) ==
    LET n == Min(Len(data), Len(out)) IN
    [n |-> n,
     out |-> [i \in 1..Len(out) |-> IF i <= n THEN PrefixSum(data, i) ELSE out[i]]]

\* --------------------------------------------------------- SegmentPostings
\* A cursor is [doc_id |-> read position (0-based), doc_ids |-> the list].
empty == [doc_id |-> 0, doc_ids |-> <<>>]

\* Vec::truncate(n): no effect when n is not below the length.
truncate(v, n) == IF n < Len(v) THEN SubSeq(v, 1, n) ELSE v

\* Mutant of from_data: a failed deserialize is replaced by an empty vector.
from_data_masking(doc_freq, data) ==
    LET d == VecDeserialize(data)
        words == IF d.ok THEN d.val ELSE <<>>
        doc_ids == [i \in 1..doc_freq |-> i - 1]
        dec == decode_sorted(words, doc_ids)
    IN [panic |-> FALSE,
        sp |-> [doc_id |-> 0, doc_ids |-> truncate(dec.out, dec.n)]]

\* Mutant of from_data: the output buffer is one slot short.
from_data_short_buffer(doc_freq, data) ==
    LET d == VecDeserialize(data) IN
    IF ~d.ok THEN [panic |-> TRUE]
    ELSE LET doc_ids == [i \in 1..(doc_freq - 1) |-> i]
             dec == decode_sorted(d.val, doc_ids)
         IN [panic |-> FALSE,
             sp |-> [doc_id |-> 0, doc_ids |-> truncate(dec.out, dec.n)]]

\* Mutant of from_data: the buffer is not truncated to the decoded count.
from_data_no_truncate(doc_freq, data) ==
    LET d == VecDeserialize(data) IN
    IF ~d.ok THEN [panic |-> TRUE]
    ELSE LET doc_ids == [i \in 1..doc_freq |-> i - 1]
             dec == decode_sorted(d.val, doc_ids)
         IN [panic |-> FALSE,
             sp |-> [doc_id |-> 0, doc_ids |-> dec.out]]

\* from_data: [panic |-> TRUE] when deserialize().unwrap() fails, else the
\* cursor over the decoded ids.
from_data(doc_freq, data) ==
    LET d == VecDeserialize(data) IN
    IF ~d.ok THEN [panic |-> TRUE]
    ELSE LET doc_ids == [i \in 1..doc_freq |-> i - 1]
             dec == decode_sorted(d.val, doc_ids)
         IN [panic |-> FALSE,
             sp |-> [doc_id |-> 0, doc_ids |-> truncate(dec.out, dec.n)]]

\* Mutant of next: an exhausted cursor returns None and rewinds to the start.
next_rewind(sp) ==
    IF sp.doc_id < Len(sp.doc_ids)
    THEN [sp |-> [sp EXCEPT !.doc_id = @ + 1], res |-> Some(sp.doc_ids[sp.doc_id + 1])]
    ELSE [sp |-> [sp EXCEPT !.doc_id = 0], res |-> None]

\* Iterator::next: [sp |-> cursor after the call, res |-> Option<DocId>].
next(sp) ==
    IF sp.doc_id < Len(sp.doc_ids)
    THEN [sp |-> [sp EXCEPT !.doc_id = @ + 1], res |-> Some(sp.doc_ids[sp.doc_id + 1])]
    ELSE [sp |-> sp, res |-> None]

\* Mutant of skip_next: the comparison is strict.
RECURSIVE skip_next_strict(_, _)
skip_next_strict(sp, target) ==
    LET r == next(sp) IN
    IF r.res = None THEN r
    ELSE IF r.res[1] > target THEN r
    ELSE skip_next_strict(r.sp, target)

\* Mutant of skip_next: the id returned is not consumed.
RECURSIVE skip_next_peek(_, _)
skip_next_peek(sp, target) ==
    LET r == next(sp) IN
    IF r.res = None THEN r
    ELSE IF r.res[1] >= target THEN [sp |-> sp, res |-> r.res]
    ELSE skip_next_peek(r.sp, target)

\* Mutant of skip_next: the id the cursor returned last is returned again
\* when it already reaches the target.
RECURSIVE skip_next_current(_, _)
skip_next_current(sp, target) ==
    IF sp.doc_id > 0 /\ sp.doc_ids[sp.doc_id] >= target
    THEN [sp |-> sp, res |-> Some(sp.doc_ids[sp.doc_id])]
    ELSE LET r == next(sp) IN
         IF r.res = None THEN r
         ELSE IF r.res[1] >= target THEN r
         ELSE skip_next_current(r.sp, target)

\* Postings::skip_next: loops over next() until a value >= target or None.
RECURSIVE skip_next(_, _)
skip_next(sp, target) ==
    LET r == next(sp) IN
    IF r.res = None THEN r
    ELSE IF r.res[1] >= target THEN r
    ELSE skip_next(r.sp, target)


\* ---------------------------------------------------------------- segment
\* A region is [present, form, data]: present is FALSE when open_read fails,
\* form tells whether the bytes decode, data is the decoded content (for
\* POSTINGS the raw bytes).
Region(form, data) == [present |-> TRUE, form |-> form, data |-> data]

\* The ids of a set in ascending order.
RECURSIVE SortedSeq(_)
SortedSeq(S) ==
    IF S = {} THEN <<>>
    ELSE LET m == CHOOSE x \in S : \A y \in S : x <= y
         IN <<m>> \o SortedSeq(S \ {m})

\* Bytes of one term's posting list in the POSTINGS region.
PostingsBlob(S) == VecSerialize(encode_sorted(SortedSeq(S)))

\* index[i] is the set of documents holding IndexedTerms[i]; a term with no
\* document is not written.
RECURSIVE PostingsOffset(_, _)
PostingsOffset(index, i) ==
    IF i = 1 THEN 0
    ELSE PostingsOffset(index, i - 1)
         + (IF index[i - 1] = {} THEN 0 ELSE Len(PostingsBlob(index[i - 1])))

RECURSIVE PostingsBytes(_, _)
PostingsBytes(index, i) ==
    IF i > Len(index) THEN <<>>
    ELSE (IF index[i] = {} THEN <<>> ELSE PostingsBlob(index[i]))
         \o PostingsBytes(index, i + 1)

\* TermInfo of every written term.
TermInfos(index) ==
    [t \in {IndexedTerms[i] : i \in {j \in 1..Len(index) : index[j] # {}}} |->
        LET i == CHOOSE j \in 1..Len(index) : IndexedTerms[j] = t
        IN [postings_offset |-> PostingsOffset(index, i),
            doc_freq |-> Cardinality(index[i])]]

\* The segment sealed by the writer for max_doc documents and this index.
WriteSegment(max_doc, index) ==
    [id |-> "seg",
     INFO |-> Region("ok", [max_doc |-> max_doc]),
     TERMS |-> Region("ok", TermInfos(index)),
     STORE |-> Region("ok", max_doc),
     POSTINGS |-> Region("ok", PostingsBytes(index, 1)),
     FASTFIELDS |-> Region("ok", "fastfields")]

\* Damage done to a sealed segment on disk.
Malformations ==
    { <<"INFO", "bad_utf8">>, <<"INFO", "bad_json">>,
      <<"TERMS", "bad">>, <<"FASTFIELDS", "bad">> }

Damage(seg, dmg) ==
    CASE dmg.kind = "none" -> seg
      [] dmg.kind = "missing" ->
            [seg EXCEPT ![dmg.comp] = [@ EXCEPT !.present = FALSE]]
      [] dmg.kind = "malformed" ->
            [seg EXCEPT ![dmg.comp] = [@ EXCEPT !.form = dmg.form]]
      [] dmg.kind = "truncated" ->
            [seg EXCEPT !.POSTINGS = [@ EXCEPT !.data = SubSeq(@, 1, dmg.n)]]

Damages(seg) ==
    {[kind |-> "none"]}
    \cup {[kind |-> "missing", comp |-> c] : c \in Components}
    \cup {[kind |-> "malformed", comp |-> m[1], form |-> m[2]] : m \in Malformations}
    \cup {[kind |-> "truncated", n |-> n] : n \in 0..(Len(seg.POSTINGS.data) - 1)}

Indexes(max_doc) == [1..Len(IndexedTerms) -> SUBSET (0..(max_doc - 1))]

SealedSegments ==
    UNION {{WriteSegment(m, index) : index \in Indexes(m)} : m \in 0..MaxDoc}

ConcSegments == {WriteSegment(MaxConcDoc, index) : index \in Indexes(MaxConcDoc)}

DiskSegments == UNION {{Damage(seg, d) : d \in Damages(seg)} : seg \in SealedSegments}

\* ------------------------------------------------------ SegmentReader::open
OpenSteps ==
    << "open_read_INFO", "from_utf8", "json_decode",
       "open_read_TERMS", "FstMap_from_source",
       "open_read_STORE",
       "open_read_POSTINGS",
       "open_read_FASTFIELDS", "U32FastFieldsReader_open" >>

\* Segment::open_read(component): Err when the region cannot be read.
open_read(seg, comp) == seg[comp].present

\* Whether one step of open succeeds on this segment.
StepOk(seg, step) ==
    CASE step = "open_read_INFO" -> open_read(seg, "INFO")
      [] step = "from_utf8" -> seg.INFO.form # "bad_utf8"
      [] step = "json_decode" -> seg.INFO.form = "ok"
      [] step = "open_read_TERMS" -> open_read(seg, "TERMS")
      [] step = "FstMap_from_source" -> seg.TERMS.form = "ok"
      [] step = "open_read_STORE" -> open_read(seg, "STORE")
      [] step = "open_read_POSTINGS" -> open_read(seg, "POSTINGS")
      [] step = "open_read_FASTFIELDS" -> open_read(seg, "FASTFIELDS")
      [] step = "U32FastFieldsReader_open" -> seg.FASTFIELDS.form = "ok"

\* The value built by the Ok(SegmentReader { .. }) expression.
NewSegmentReader(seg) ==
    [segment_info |-> seg.INFO.data,
     postings_data |-> seg.POSTINGS.data,
     term_infos |-> seg.TERMS.data,
     segment_id |-> seg.id,
     store_reader |-> seg.STORE.data,
     fast_fields_reader |-> seg.FASTFIELDS.data]

\* Mutant of open_from: a failed read of the STORE region is not returned.
RECURSIVE open_from_unchecked_store(_, _, _)
open_from_unchecked_store(seg, i, trace) ==
    IF i > Len(OpenSteps)
    THEN [ok |-> TRUE, reader |-> Some(NewSegmentReader(seg)), trace |-> trace]
    ELSE IF StepOk(seg, OpenSteps[i]) \/ OpenSteps[i] = "open_read_STORE"
         THEN open_from_unchecked_store(seg, i + 1, Append(trace, OpenSteps[i]))
         ELSE [ok |-> FALSE, reader |-> None, trace |-> Append(trace, OpenSteps[i])]

\* The try! chain: each step runs only when every step before it succeeded.
RECURSIVE open_from(_, _, _)
open_from(seg, i, trace) ==
    IF i > Len(OpenSteps)
    THEN [ok |-> TRUE, reader |-> Some(NewSegmentReader(seg)), trace |-> trace]
    ELSE IF StepOk(seg, OpenSteps[i])
         THEN open_from(seg, i + 1, Append(trace, OpenSteps[i]))
         ELSE [ok |-> FALSE, reader |-> None, trace |-> Append(trace, OpenSteps[i])]

open(seg) == open_from(seg, 1, <<>>)

\* Mutant of max_doc: the highest id instead of the highest id + 1.
max_doc_highest_id(rd) == rd.segment_info.max_doc - 1

max_doc(rd) == rd.segment_info.max_doc

\* ------------------------------------------------------------- accessors
\* io::Result: <<"Ok", v>> or <<"Err">>.
Ok(v) == <<"Ok", v>>
Err == <<"Err">>

\* StoreReader::get: the stored document of an id the store holds.
store_get(store_reader, doc_id) ==
    IF doc_id < store_reader THEN Ok([doc |-> doc_id]) ELSE Err

\* The fields a query may ask a fast-field reader for, and those stored.
U32Fields == {"f", "g"}
StoredFields == {"f"}

\* U32FastFieldsReader::get_field: the reader of a stored field.
get_field(fast_fields_reader, u32_field) ==
    IF u32_field \in StoredFields
    THEN Ok([source |-> fast_fields_reader, field |-> u32_field])
    ELSE Err

doc(rd, doc_id) == store_get(rd.store_reader, doc_id)

get_fast_field_reader(rd, u32_field) == get_field(rd.fast_fields_reader, u32_field)

\* ----------------------------------------------- read_postings and search
\* Mutant of read_postings: a cursor already handed out for the same list is
\* handed out again, at the position it has reached.
read_postings_cached(rd, term_info) ==
    LET offset == term_info.postings_offset
        fresh == IF offset > Len(rd.postings_data) THEN [panic |-> TRUE]
                 ELSE from_data(term_info.doc_freq,
                                SubSeq(rd.postings_data, offset + 1, Len(rd.postings_data)))
        live == {c \in UNION {Range(queries[q].postings) : q \in Queries} :
                    ~fresh.panic /\ c.doc_ids = fresh.sp.doc_ids}
    IN IF fresh.panic \/ live = {} THEN fresh
       ELSE [panic |-> FALSE,
             sp |-> CHOOSE c \in live : \A d \in live : c.doc_id >= d.doc_id]

\* [panic |-> TRUE] when the slice start lies past the end of the region.
read_postings(rd, term_info) ==
    LET offset == term_info.postings_offset IN
    IF offset > Len(rd.postings_data) THEN [panic |-> TRUE]
    ELSE from_data(term_info.doc_freq,
                   SubSeq(rd.postings_data, offset + 1, Len(rd.postings_data)))

get_term(rd, term) ==
    IF term \in DOMAIN rd.term_infos THEN Some(rd.term_infos[term]) ELSE None

\* What search does for the i-th term, in the order it does it: the log of a
\* search is the sequence of its dictionary lookups and postings decodes.
Lookup(i) == <<"get_term", i>>
Decode(i) == <<"read_postings", i>>

\* Mutant of search_loop: a missing term is skipped, the vector is kept.
RECURSIVE search_loop_skip_missing(_, _, _, _)
search_loop_skip_missing(rd, terms, i, segment_postings) ==
    IF i > Len(terms) THEN [panic |-> FALSE, postings |-> segment_postings, log |-> <<>>]
    ELSE LET found == get_term(rd, terms[i]) IN
         IF found = None
         THEN LET rest == search_loop_skip_missing(rd, terms, i + 1, segment_postings)
              IN [rest EXCEPT !.log = <<Lookup(i)>> \o @]
         ELSE LET p == read_postings(rd, found[1]) IN
              IF p.panic THEN [panic |-> TRUE, log |-> <<Lookup(i), Decode(i)>>]
              ELSE LET rest == search_loop_skip_missing(rd, terms, i + 1,
                                                        Append(segment_postings, p.sp))
                   IN [rest EXCEPT !.log = <<Lookup(i), Decode(i)>> \o @]

\* Mutant of search_loop: the break is missing, the loop goes on after the
\* vector was cleared and empty() pushed.
RECURSIVE search_loop_no_break(_, _, _, _)
search_loop_no_break(rd, terms, i, segment_postings) ==
    IF i > Len(terms) THEN [panic |-> FALSE, postings |-> segment_postings, log |-> <<>>]
    ELSE LET found == get_term(rd, terms[i]) IN
         IF found = None
         THEN LET rest == search_loop_no_break(rd, terms, i + 1, <<empty>>)
              IN [rest EXCEPT !.log = <<Lookup(i)>> \o @]
         ELSE LET p == read_postings(rd, found[1]) IN
              IF p.panic THEN [panic |-> TRUE, log |-> <<Lookup(i), Decode(i)>>]
              ELSE LET rest == search_loop_no_break(rd, terms, i + 1,
                                                    Append(segment_postings, p.sp))
                   IN [rest EXCEPT !.log = <<Lookup(i), Decode(i)>> \o @]

\* The for loop of search over terms[i..]; segment_postings is the vector
\* built so far. The result carries the log of the lookups and decodes made.
RECURSIVE search_loop(_, _, _, _)
search_loop(rd, terms, i, segment_postings) ==
    IF i > Len(terms) THEN [panic |-> FALSE, postings |-> segment_postings, log |-> <<>>]
    ELSE LET found == get_term(rd, terms[i]) IN
         IF found = None
         THEN [panic |-> FALSE, postings |-> <<empty>>, log |-> <<Lookup(i)>>]
         ELSE LET p == read_postings(rd, found[1]) IN
              IF p.panic THEN [panic |-> TRUE, log |-> <<Lookup(i), Decode(i)>>]
              ELSE LET rest == search_loop(rd, terms, i + 1, Append(segment_postings, p.sp))
                   IN [rest EXCEPT !.log = <<Lookup(i), Decode(i)>> \o @]

\* Mutant of search: an empty term list is answered with the empty() cursor.
search_empty_sentinel(rd, terms) ==
    IF terms = <<>> THEN [panic |-> FALSE, postings |-> <<empty>>, log |-> <<>>]
    ELSE search_loop(rd, terms, 1, <<>>)

search(rd, terms) == search_loop(rd, terms, 1, <<>>)


\* ---------------------------------------------------- IntersectionPostings
\* A query is [st, terms, postings, candidate, idx, out, ended, log]:
\*   st        "idle", "ready" (search returned, or a pull returned an id),
\*             "merging" (inside a pull), "ended" (the last pull returned
\*             None) or "panicked" (search unwound);
\*   postings  the cursors the intersection owns;
\*   candidate the current merge candidate, idx the 1-based index of the
\*             cursor compared next;
\*   out       the ids returned by the pulls so far;
\*   ended     TRUE once some pull has returned None;
\*   log       the lookups and decodes search made to build the cursors.
IdleQuery ==
    [st |-> "idle", terms |-> <<>>, postings |-> <<>>, candidate |-> 0,
     idx |-> 0, out |-> <<>>, ended |-> FALSE, log |-> <<>>]

\* IntersectionPostings::from_postings takes ownership of the vector.
from_postings(qs, terms, segment_postings) ==
    [qs EXCEPT !.st = "ready", !.terms = terms, !.postings = segment_postings]

\* The pull returns None.
intersection_end(qs) == [qs EXCEPT !.st = "ended", !.ended = TRUE]

\* Cursors 1..idx-1 returned the candidate: emit it when that is all of them.
intersection_agree(qs) ==
    IF qs.idx > Len(qs.postings)
    THEN [qs EXCEPT !.st = "ready", !.out = Append(@, qs.candidate)]
    ELSE [qs EXCEPT !.st = "merging"]

\* Start of a pull: no cursor at all ends it; else the candidate is seeded
\* with the first cursor's next().
intersection_seed(qs) ==
    IF Len(qs.postings) = 0 THEN intersection_end(qs)
    ELSE LET r == next(qs.postings[1]) IN
         IF r.res = None
         THEN intersection_end([qs EXCEPT !.postings[1] = r.sp])
         ELSE intersection_agree(
                  [qs EXCEPT !.postings[1] = r.sp, !.candidate = r.res[1], !.idx = 2])

\* One comparison: skip_next(candidate) on cursor idx. The candidate
\* unchanged moves to the next cursor, a larger id becomes the candidate and
\* the comparison restarts from the first cursor, None ends the pull.
intersection_compare(qs) ==
    LET r == skip_next(qs.postings[qs.idx], qs.candidate)
        moved == [qs EXCEPT !.postings[qs.idx] = r.sp]
    IN IF r.res = None THEN intersection_end(moved)
       ELSE IF r.res[1] = qs.candidate
            THEN intersection_agree([moved EXCEPT !.idx = @ + 1])
            ELSE [moved EXCEPT !.candidate = r.res[1], !.idx = 1, !.st = "merging"]

NoRet == [op |-> "none", arg |-> 0, val |-> None, first |-> None, at |-> "none"]

NoCall ==
    [op |-> "none", target |-> 0, before |-> empty, res |-> None, passed |-> {},
     prev |-> None]

\* What the call before the one being made returned, when it was a call of
\* next or skip_next.
PrevRes == IF call.op \in {"next", "skip_next"} THEN call.res ELSE None
NoHist == [last |-> 0, mono |-> TRUE, passed |-> {}]

\* The ids a call moved over or returned.
Passed(before, r) ==
    {before.doc_ids[i] : i \in (before.doc_id + 1)..r.sp.doc_id} \cup Range(r.res)

TermLists == UNION {[1..n -> Terms] : n \in 0..MaxTerms}

\* Term lists of the concurrent queries: a term is missing from the
\* dictionary there when the segment holds no document with it.
ConcTermLists == UNION {[1..n -> Range(IndexedTerms)] : n \in 0..MaxTerms}

\* ---------------------------------------------------------------- actions
Open ==
    /\ open_status = "closed"
    /\ LET r == open(segment) IN
        /\ reader' = r.reader
        /\ open_trace' = r.trace
        /\ open_status' = IF r.ok THEN "open" ELSE "failed"
    /\ UNCHANGED <<segment, queries, cur, call, hist, ret>>

\* Mutant of Search: the postings region is moved out of the reader.
Search_draining(q, terms) ==
    /\ reader # None
    /\ queries[q].st = "idle"
    /\ LET s == search(reader[1], terms) IN
        queries' = [queries EXCEPT ![q] =
            IF s.panic THEN [@ EXCEPT !.st = "panicked", !.terms = terms, !.log = s.log]
            ELSE [from_postings(@, terms, s.postings) EXCEPT !.log = s.log]]
    /\ reader' = Some([reader[1] EXCEPT !.postings_data = <<>>])
    /\ UNCHANGED <<segment, open_status, open_trace, cur, call, hist, ret>>

Search(q, terms) ==
    /\ reader # None
    /\ queries[q].st = "idle"
    /\ LET s == search(reader[1], terms) IN
        queries' = [queries EXCEPT ![q] =
            IF s.panic THEN [@ EXCEPT !.st = "panicked", !.terms = terms, !.log = s.log]
            ELSE [from_postings(@, terms, s.postings) EXCEPT !.log = s.log]]
    /\ UNCHANGED <<segment, open_status, open_trace, reader, cur, call, hist, ret>>

Pull(q) ==
    /\ queries[q].st \in {"ready", "ended"}
    /\ queries' = [queries EXCEPT ![q] = intersection_seed(@)]
    /\ UNCHANGED <<segment, open_status, open_trace, reader, cur, call, hist, ret>>

Compare(q) ==
    /\ queries[q].st = "merging"
    /\ queries' = [queries EXCEPT ![q] = intersection_compare(@)]
    /\ UNCHANGED <<segment, open_status, open_trace, reader, cur, call, hist, ret>>

MaxDocCall ==
    /\ reader # None
    /\ ret' = [op |-> "max_doc", arg |-> 0, val |-> max_doc(reader[1]),
                first |-> None, at |-> "none"]
    /\ UNCHANGED <<segment, open_status, open_trace, reader, queries, cur, call, hist>>

Doc(doc_id) ==
    /\ reader # None
    /\ ret' = [op |-> "doc", arg |-> doc_id, val |-> doc(reader[1], doc_id),
                first |-> None, at |-> "none"]
    /\ UNCHANGED <<segment, open_status, open_trace, reader, queries, cur, call, hist>>

GetFastFieldReader(u32_field) ==
    /\ reader # None
    /\ ret' = [op |-> "get_fast_field_reader", arg |-> u32_field,
                val |-> get_fast_field_reader(reader[1], u32_field),
                first |-> None, at |-> "none"]
    /\ UNCHANGED <<segment, open_status, open_trace, reader, queries, cur, call, hist>>

\* read_postings called by a caller of its own; when the accessor called
\* before it was the same call, first keeps what the earliest of these calls
\* returned and at where query 1 stood then.
ReadPostings(term) ==
    /\ reader # None
    /\ term \in DOMAIN reader[1].term_infos
    /\ ret' = [op |-> "read_postings", arg |-> term,
                val |-> read_postings(reader[1], reader[1].term_infos[term]),
                first |-> IF ret.op = "read_postings" /\ ret.arg = term
                          THEN (IF ret.first # None THEN ret.first ELSE Some(ret.val))
                          ELSE None,
                at |-> IF ret.op = "read_postings" /\ ret.arg = term
                       THEN ret.at ELSE queries[1].st]
    /\ UNCHANGED <<segment, open_status, open_trace, reader, queries, cur, call, hist>>

CursorNext ==
    /\ LET r == next(cur) IN
        /\ cur' = r.sp
        /\ call' = [op |-> "next", target |-> 0, before |-> cur, res |-> r.res,
                     passed |-> hist.passed, prev |-> PrevRes]
        /\ hist' = [hist EXCEPT !.passed = @ \cup Passed(cur, r)]
    /\ UNCHANGED <<segment, open_status, open_trace, reader, queries, ret>>

CursorSkipNext(target) ==
    /\ LET r == skip_next(cur, target) IN
        /\ cur' = r.sp
        /\ call' = [op |-> "skip_next", target |-> target, before |-> cur, res |-> r.res,
                     passed |-> hist.passed, prev |-> PrevRes]
        /\ hist' = [last |-> target, mono |-> hist.mono /\ hist.last <= target,
                     passed |-> hist.passed \cup Passed(cur, r)]
    /\ UNCHANGED <<segment, open_status, open_trace, reader, queries, ret>>

\* from_data on the bytes written for the set S of documents, with any
\* doc_freq: call keeps doc_freq (target), the list written (before) and the
\* count the decoder returns for a buffer of doc_freq slots (res).
CursorFromData(doc_freq, S) ==
    /\ LET data == PostingsBlob(S)
           r == from_data(doc_freq, data)
           k == decode_sorted(VecDeserialize(data).val, [i \in 1..doc_freq |-> i - 1]).n
       IN /\ ~r.panic
          /\ cur' = r.sp
          /\ call' = [op |-> "from_data", target |-> doc_freq,
                       before |-> [doc_id |-> 0, doc_ids |-> SortedSeq(S)],
                       res |-> Some(k), passed |-> {}, prev |-> None]
          /\ hist' = NoHist
    /\ UNCHANGED <<segment, open_status, open_trace, reader, queries, ret>>

\* --------------------------------------------------------- specifications
InitReader ==
    /\ open_status = "closed"
    /\ open_trace = <<>>
    /\ reader = None
    /\ queries = [q \in Queries |-> IdleQuery]
    /\ ret = NoRet

InitCursor ==
    /\ cur = empty
    /\ call = NoCall
    /\ hist = NoHist

\* One query against any segment found on disk.
Init ==
    /\ segment \in DiskSegments
    /\ InitReader
    /\ InitCursor

Next ==
    \/ Open
    \/ \E terms \in TermLists : Search(1, terms)
    \/ Pull(1)
    \/ Compare(1)

Spec == Init /\ [][Next]_vars

\* The caller keeps pulling and a pull runs its comparisons to its end.
SpecLive == Init /\ [][Next]_vars /\ WF_vars(Pull(1)) /\ WF_vars(Compare(1))

\* Two queries against a sealed segment, their steps interleaved.
InitConc ==
    /\ segment \in ConcSegments
    /\ InitReader
    /\ InitCursor

NextConc ==
    \/ Open
    \/ \E q \in Queries, terms \in ConcTermLists : Search(q, terms)
    \/ \E q \in Queries : Pull(q)
    \/ \E q \in Queries : Compare(q)

SpecConc == InitConc /\ [][NextConc]_vars

\* One query and the accessors of the reader, called in any order.
InitReaderSpec ==
    /\ segment \in ConcSegments
    /\ InitReader
    /\ InitCursor

NextReader ==
    \/ Open
    \/ \E terms \in ConcTermLists : Search(1, terms)
    \/ Pull(1)
    \/ Compare(1)
    \/ MaxDocCall
    \/ \E doc_id \in 0..MaxConcDoc : Doc(doc_id)
    \/ \E u32_field \in U32Fields : GetFastFieldReader(u32_field)
    \/ \E term \in Terms : ReadPostings(term)

SpecReader == InitReaderSpec /\ [][NextReader]_vars

\* One cursor, decoded from a written posting list or empty(), driven by any
\* sequence of next and skip_next calls.
CursorTargets == 0..MaxDoc

InitCursorSpec ==
    /\ segment = WriteSegment(0, [i \in 1..Len(IndexedTerms) |-> {}])
    /\ InitReader
    /\ cur \in {empty}
          \cup {from_data(Cardinality(S), PostingsBlob(S)).sp : S \in SUBSET (0..(MaxDoc - 1))}
    /\ call = NoCall
    /\ hist = NoHist

NextCursor ==
    \/ CursorNext
    \/ \E target \in CursorTargets : CursorSkipNext(target)
    \/ \E doc_freq \in 0..MaxDoc, S \in SUBSET (0..(MaxDoc - 1)) : CursorFromData(doc_freq, S)

SpecCursor == InitCursorSpec /\ [][NextCursor]_vars


\* ------------------------------------------------------------ properties
\* Whether every term of the list is in the reader's dictionary.
AllPresent(rd, terms) == \A i \in DOMAIN terms : terms[i] \in DOMAIN rd.term_infos

\* The posting list of a present term, as its own cursor yields it.
PostingList(rd, term) == read_postings(rd, rd.term_infos[term]).sp.doc_ids

\* Whether the bytes at a term's offset cannot be read as a Vec<u32>: the
\* offset lies past the region, or the length word or one of the items it
\* announces is cut short.
BlobBroken(rd, term_info) ==
    LET have == Len(rd.postings_data) - term_info.postings_offset
        at(k) == rd.postings_data[term_info.postings_offset + k]
    IN \/ have < 4
       \/ have < 4 + 4 * (at(1) * 16777216 + at(2) * 65536 + at(3) * 256 + at(4))

\* Whether search(terms) meets a decoding failure: some term is reached
\* (every term before it and itself is present) and its bytes are broken.
DecodeFails(rd, terms) ==
    \E i \in DOMAIN terms :
        /\ \A j \in 1..i : terms[j] \in DOMAIN rd.term_infos
        /\ BlobBroken(rd, rd.term_infos[terms[i]])

C2_MissingTermEmpty ==
    LET qs == queries[1] IN
    (/\ reader # None
     /\ qs.st # "idle"
     /\ ~AllPresent(reader[1], qs.terms))
    => /\ qs.st # "panicked"
            => /\ qs.postings = <<empty>>
               /\ qs.out = <<>>
               /\ qs.st \in {"ready", "ended"}
       /\ segment \in SealedSegments => qs.st # "panicked"

C2_Witness ==
    LET qs == queries[1] IN
    /\ reader # None
    /\ qs.st = "ended"
    /\ Len(qs.terms) = 2
    /\ qs.terms[1] \in DOMAIN reader[1].term_infos
    /\ qs.terms[2] \notin DOMAIN reader[1].term_infos
    /\ Len(PostingList(reader[1], qs.terms[1])) >= 2

C4_SkipNextResult ==
    call.op = "skip_next"
    => LET b == call.before
           hits == {i \in (b.doc_id + 1)..Len(b.doc_ids) : b.doc_ids[i] >= call.target}
       IN /\ cur.doc_ids = b.doc_ids
          /\ IF hits = {}
             THEN call.res = None /\ cur.doc_id = Len(cur.doc_ids)
             ELSE LET first == CHOOSE i \in hits : \A j \in hits : i <= j
                  IN /\ call.res = Some(b.doc_ids[first])
                     /\ cur.doc_id = first
                     /\ \A j \in (b.doc_id + 1)..(first - 1) : b.doc_ids[j] < call.target

C4_Witness ==
    /\ call.op = "skip_next"
    /\ call.before.doc_id >= 1
    /\ call.res # None
    /\ cur.doc_id >= call.before.doc_id + 2

C4_WitnessEnd ==
    /\ call.op = "skip_next"
    /\ call.res = None
    /\ call.before.doc_id < Len(cur.doc_ids)

\* C5: while the skip_next targets are non-decreasing, a skip_next call never
\* returns an id that an earlier call returned or discarded.
C5_SkipNextMonotone ==
    (call.op = "skip_next" /\ hist.mono /\ call.res # None)
    => call.res[1] \notin call.passed

C5_Witness ==
    /\ call.op = "skip_next"
    /\ hist.mono
    /\ call.res # None
    /\ Cardinality(call.passed) >= 2
    /\ call.target > 0


\* C6: when search meets a decoding failure (the bytes at a reached term's
\* offset are cut short, or the offset lies past the POSTINGS region) it
\* unwinds to its caller: no cursor is returned and nothing is ever emitted;
\* and search unwinds only then.
C6_DecodeFailurePropagates ==
    LET qs == queries[1] IN
    (reader # None /\ qs.st # "idle")
    => /\ DecodeFails(reader[1], qs.terms)
            => (qs.st = "panicked" /\ qs.postings = <<>> /\ qs.out = <<>>)
       /\ qs.st = "panicked" => DecodeFails(reader[1], qs.terms)

C6_Witness ==
    LET qs == queries[1] IN
    /\ reader # None
    /\ qs.st = "panicked"
    /\ Len(qs.terms) = 2
    /\ ~BlobBroken(reader[1], reader[1].term_infos[qs.terms[1]])
    /\ reader[1].term_infos[qs.terms[2]].postings_offset < Len(reader[1].postings_data)

C6_WitnessOffsetBeyond ==
    LET qs == queries[1] IN
    /\ reader # None
    /\ qs.st = "panicked"
    /\ Len(qs.terms) = 1
    /\ reader[1].term_infos[qs.terms[1]].postings_offset > Len(reader[1].postings_data)

\* Whether every region of the segment can be read and decodes.
AllRegionsGood(seg) == \A c \in Components : seg[c].present /\ seg[c].form = "ok"

\* C7: open returns a reader only when all five regions were read and the
\* SegmentInfo, the dictionary and the fast-field reader decoded; otherwise
\* it returns an error, there is no reader, and it stopped at the failing
\* step.
C7_NoPartialOpen ==
    /\ open_status = "closed" => (reader = None /\ open_trace = <<>>)
    /\ open_status = "open"
        => /\ AllRegionsGood(segment)
           /\ open_trace = OpenSteps
           /\ reader = Some(NewSegmentReader(segment))
    /\ open_status = "failed"
        => /\ ~AllRegionsGood(segment)
           /\ reader = None
           /\ open_trace # <<>>
           /\ open_trace = SubSeq(OpenSteps, 1, Len(open_trace))
           /\ ~StepOk(segment, open_trace[Len(open_trace)])
           /\ \A i \in 1..(Len(open_trace) - 1) : StepOk(segment, open_trace[i])

C7_Witness ==
    /\ open_status = "failed"
    /\ open_trace[Len(open_trace)] = "open_read_POSTINGS"
    /\ segment.FASTFIELDS.present

\* The states a query goes through when it runs alone from qs.
intersection_step(qs) ==
    IF qs.st = "merging" THEN intersection_compare(qs)
    ELSE IF qs.st \in {"ready", "ended"} THEN intersection_seed(qs)
    ELSE qs

RECURSIVE SoloStates(_)
SoloStates(qs) ==
    IF intersection_step(qs) = qs THEN {qs}
    ELSE {qs} \cup SoloStates(intersection_step(qs))

\* What search(terms) hands back when it is the only call.
SoloSearch(rd, terms) ==
    LET s == search(rd, terms) IN
    IF s.panic THEN [IdleQuery EXCEPT !.st = "panicked", !.terms = terms, !.log = s.log]
    ELSE [IdleQuery EXCEPT !.st = "ready", !.terms = terms, !.postings = s.postings,
                           !.log = s.log]

\* C8: with the steps of two searches interleaved in any order, each query
\* is always in a state the same search goes through when run alone (same
\* cursor positions, same ids emitted), so each yields its solo result.
C8_NoInterference ==
    \A q \in Queries :
        queries[q].st # "idle"
        => queries[q] \in SoloStates(SoloSearch(reader[1], queries[q].terms))

C8_Witness ==
    /\ queries[1].st = "merging"
    /\ queries[2].st = "merging"
    /\ queries[1].terms = queries[2].terms
    /\ queries[1].postings # queries[2].postings
    /\ queries[1].idx = 1
    /\ queries[2].idx = 2

\* C9: every id a search has returned is below max_doc().
C9_MaxDocBound ==
    LET qs == queries[1] IN
    reader # None => \A i \in DOMAIN qs.out : qs.out[i] < max_doc(reader[1])

C9_Witness ==
    LET qs == queries[1] IN
    /\ reader # None
    /\ Len(qs.out) >= 2
    /\ qs.out[Len(qs.out)] = max_doc(reader[1]) - 1

\* C10: the cursor read_postings builds for a term of the dictionary holds
\* as many ids as the term's doc_freq: so for every cursor a search was
\* handed, and for every term whose cursor can be built.
C10_LengthIsDocFreq ==
    LET qs == queries[1] IN
    reader # None
    => /\ (qs.st \notin {"idle", "panicked"} /\ AllPresent(reader[1], qs.terms))
            => /\ Len(qs.postings) = Len(qs.terms)
               /\ \A i \in DOMAIN qs.terms :
                    Len(qs.postings[i].doc_ids) = reader[1].term_infos[qs.terms[i]].doc_freq
       /\ \A t \in DOMAIN reader[1].term_infos :
            LET p == read_postings(reader[1], reader[1].term_infos[t]) IN
            ~p.panic => Len(p.sp.doc_ids) = reader[1].term_infos[t].doc_freq

C10_Witness ==
    LET qs == queries[1] IN
    /\ reader # None
    /\ qs.st = "ready"
    /\ qs.out = <<>>
    /\ Len(qs.terms) = 2
    /\ AllPresent(reader[1], qs.terms)
    /\ Len(qs.postings[1].doc_ids) = 1
    /\ Len(qs.postings[2].doc_ids) >= 2


\* C11: a cursor's position starts at 0, stays within 0..length and never
\* decreases; a call on an exhausted cursor (position = length) returns None
\* and leaves position and list unchanged; empty() is exhausted from the
\* start.
C11_CursorLifecycle ==
    /\ 0 <= cur.doc_id /\ cur.doc_id <= Len(cur.doc_ids)
    /\ call.op = "none" => cur.doc_id = 0
    /\ cur = empty => cur.doc_id = Len(cur.doc_ids)
    /\ call.op \in {"next", "skip_next"}
        => /\ cur.doc_id >= call.before.doc_id
           /\ cur.doc_ids = call.before.doc_ids
           /\ call.before.doc_id = Len(call.before.doc_ids)
                => (call.res = None /\ cur = call.before)

C11_Witness ==
    /\ call.op = "skip_next"
    /\ Len(cur.doc_ids) >= 2
    /\ call.before.doc_id = Len(call.before.doc_ids)
    /\ call.target <= cur.doc_ids[1]
    /\ call.res = None


\* C12: once open has returned a reader, no call (search, read_postings,
\* max_doc, doc, get_fast_field_reader, a pull or a comparison of a cursor
\* it returned) changes the reader or the segment.
C12_ReaderImmutable ==
    [][reader # None => (reader' = reader /\ segment' = segment)]_vars

C12_Witness ==
    /\ reader # None
    /\ queries[1].ended
    /\ queries[1].out # <<>>
    /\ ret.op = "doc"
    /\ ret.val # Err


\* C13: the step in which a cursor of the merge reports None (the pull
\* ends) emits no id, and no step after it does: from then on the output
\* of the intersection never grows. A pull that has ended did so because it
\* had no cursor or because one of its cursors is exhausted.
C13_ExhaustionEnds ==
    /\ [](queries[1].ended /\ queries[1].st = "ended" /\ Len(queries[1].postings) >= 1
            => \E i \in 1..Len(queries[1].postings) :
                   queries[1].postings[i].doc_id = Len(queries[1].postings[i].doc_ids))
    /\ [][(queries[1].ended \/ queries'[1].ended)
            => queries'[1].out = queries[1].out]_vars

\* A pull made after the end is in progress: the first cursor still had an
\* id to propose, and ids had been emitted before the end.
C13_Witness ==
    /\ queries[1].ended
    /\ queries[1].st = "merging"
    /\ queries[1].out # <<>>
    /\ Len(queries[1].postings) = 2


\* Ids the cursors of a query have not passed yet.
RECURSIVE Remaining(_)
Remaining(segment_postings) ==
    IF segment_postings = <<>> THEN 0
    ELSE (Len(Head(segment_postings).doc_ids) - Head(segment_postings).doc_id)
         + Remaining(Tail(segment_postings))

\* C14: a pull that has started reports end-of-sequence after finitely many
\* steps, and so does every pull made after it; each step of the merge that
\* does not end the pull, a restart of the comparison from the first cursor
\* included, moves a cursor strictly forward.
C14_MergeTerminates ==
    /\ (queries[1].st \in {"ready", "merging"}) ~> (queries[1].st = "ended")
    /\ [][(queries[1].st \in {"ready", "merging"} /\ queries'[1].st # "ended")
            => /\ Remaining(queries'[1].postings) < Remaining(queries[1].postings)
               /\ \A i \in 1..Len(queries[1].postings) :
                      queries'[1].postings[i].doc_id >= queries[1].postings[i].doc_id]_vars

\* The pull has ended after the comparison restarted from the first cursor
\* at least once: the candidate is not the first id of the first cursor.
C14_Witness ==
    /\ queries[1].st = "ended"
    /\ Len(queries[1].postings) = 2
    /\ queries[1].postings[1].doc_ids # <<>>
    /\ queries[1].candidate > queries[1].postings[1].doc_ids[1]
    /\ queries[1].out = <<>>
    /\ queries[1].postings[1].doc_id = 1


\* The log of a search that looked up terms 1..k and decoded the lists of
\* terms 1..d, each decode right after the lookup of its term.
SearchLog(k, d) ==
    [j \in 1..(k + d) |->
        IF j <= 2 * d
        THEN (IF j % 2 = 1 THEN Lookup((j + 1) \div 2) ELSE Decode(j \div 2))
        ELSE Lookup(j - d)]

\* The terms of a list the dictionary does not hold, by position.
Missing(rd, terms) == {i \in DOMAIN terms : terms[i] \notin DOMAIN rd.term_infos}

\* C15: a search that returned has resolved its terms in list order. With a
\* term missing, the first one at position k, the intersection owns exactly
\* one cursor, empty(), and the search looked up terms 1..k and decoded
\* terms 1..k-1 only. With no term missing the intersection owns one cursor
\* per term, the i-th over the list of the i-th term, each looked up and
\* decoded once, in order.
C15_ShortCircuit ==
    queries[1].st \in {"ready", "merging", "ended"}
    => LET terms == queries[1].terms
           miss == Missing(reader[1], terms)
       IN IF miss # {}
          THEN LET k == CHOOSE i \in miss : \A j \in miss : i <= j IN
               /\ Len(queries[1].postings) = 1
               /\ queries[1].postings[1].doc_ids = <<>>
               /\ queries[1].log = SearchLog(k, k - 1)
          ELSE /\ Len(queries[1].postings) = Len(terms)
               /\ \A i \in DOMAIN terms :
                      queries[1].postings[i].doc_ids = PostingList(reader[1], terms[i])
               /\ queries[1].log = SearchLog(Len(terms), Len(terms))

\* The first term is missing and a term with a non-empty list follows it.
C15_Witness ==
    /\ queries[1].st = "ready"
    /\ Len(queries[1].terms) = 2
    /\ Missing(reader[1], queries[1].terms) = {1}
    /\ ~DecodeFails(reader[1], <<queries[1].terms[2]>>)
    /\ PostingList(reader[1], queries[1].terms[2]) # <<>>
    /\ queries[1].postings = <<empty>>
    /\ queries[1].log = <<Lookup(1)>>


\* C16: the cursor from_data(doc_freq, bytes) builds stands at position 0
\* over a list of min(k, doc_freq) ids, k being the count the decoder
\* returns for a buffer of doc_freq slots: the first ids of the list
\* written, never more than doc_freq of them, none when doc_freq = 0.
C16_DecodeTruncation ==
    call.op = "from_data"
    => /\ cur.doc_id = 0
       /\ Len(cur.doc_ids) = Min(call.res[1], call.target)
       /\ Len(cur.doc_ids) <= call.target
       /\ Len(cur.doc_ids) <= Len(call.before.doc_ids)
       /\ \A i \in 1..Len(cur.doc_ids) : cur.doc_ids[i] = call.before.doc_ids[i]
       /\ call.target = 0 => cur = empty

\* The decoder returned fewer ids than the buffer had slots.
C16_Witness ==
    /\ call.op = "from_data"
    /\ call.res[1] < call.target
    /\ Len(cur.doc_ids) = call.res[1]
    /\ Len(cur.doc_ids) >= 1


\* C17: read_postings called again for the same term returns what the first
\* call returned, a cursor at position 0 over the same ids, whatever query
\* 1 searched and whatever its cursors consumed between the two calls.
C17_ReadPostingsPure ==
    ret.op = "read_postings"
    => /\ ~ret.val.panic => ret.val.sp.doc_id = 0
       /\ ret.first # None => ret.val = ret.first[1]

\* The first call came before the search; by the second call the query has
\* consumed a cursor over the same list and emitted ids.
C17_Witness ==
    /\ ret.op = "read_postings"
    /\ ret.first # None
    /\ ret.at = "idle"
    /\ queries[1].st = "ended"
    /\ queries[1].out # <<>>
    /\ \E i \in 1..Len(queries[1].postings) :
           /\ queries[1].postings[i].doc_ids = ret.val.sp.doc_ids
           /\ queries[1].postings[i].doc_id > 0


\* C18: an id a call of next or skip_next returns is greater than every id
\* the cursor returned or skipped before, whatever the targets; skip_next(v)
\* called right after a call returned v returns the first id of the list
\* greater than v, or None when there is none, never v again.
C18_SkipNextConsumes ==
    call.op \in {"next", "skip_next"}
    => /\ call.res # None => \A d \in call.passed : call.res[1] > d
       /\ (call.op = "skip_next" /\ call.prev # None /\ call.target = call.prev[1])
            => LET later == {d \in Range(cur.doc_ids) : d > call.prev[1]} IN
               call.res = IF later = {} THEN None
                          ELSE Some(CHOOSE d \in later : \A e \in later : d <= e)

\* skip_next(v) right after v was returned, answered with a greater id.
C18_Witness ==
    /\ call.op = "skip_next"
    /\ call.prev # None
    /\ call.target = call.prev[1]
    /\ call.res # None
    /\ call.res[1] > call.prev[1]

====
